---- MODULE Spec2Model ----
(***************************************************************************)
(* A model of db.js (class DBjs, src/example.js lines 92-1106): an         *)
(* embedded key/value store that keeps recent values in a memory cache     *)
(* and archives the cache into timestamp-named JSON files.                 *)
(*                                                                         *)
(* Conventions of the model                                                *)
(*  - JavaScript arrays are 0-based, TLA+ sequences 1-based: cache[p] of   *)
(*    the code is cache[p + 1] here.                                       *)
(*  - A segment file is named after the millisecond clock at its creation  *)
(*    ((new Date()).getTime() + '.json').  The model names a segment by    *)
(*    the rank of its creation time (0, 1, 2, ...), i.e. it assumes that   *)
(*    two segments are never created within the same millisecond.  A file  *)
(*    name is the pair <<prefix, ts>>: <<"", 3>> is "3.json" and           *)
(*    <<"dbjs_", 3>> is "dbjs_3.json".                                     *)
(*  - JavaScript values are named by strings: "x" and "y" are the strings  *)
(*    'x' and 'y', "Infinity" is the number Infinity (JSON.stringify turns *)
(*    it into null, like NaN), "null" is null,                             *)
(*    "undefined" is undefined, "function" is a function object,           *)
(*    "circular" an object that refers to itself and "HUGE" a string       *)
(*    longer than max_value_size_bytes.                                    *)
(*  - Keys: "", "a", "b" and "constructor" are strings, "[]" is an array        *)
(*    (not a string) and "LONG" a string longer than max_key_size_bytes.   *)
(***************************************************************************)
EXTENDS Integers, Sequences, FiniteSets, TLC

VARIABLES
    cache,            \* this.cache: values, newest first
    cache_file_name,  \* this.cache_file_name: ts of the active segment
    index,            \* this.index: key -> [i, f, c]
    rindex,           \* this.rindex: seq -> key
    meta,             \* this.meta.archive: <<[name, size], ...>> in property order
    started,          \* this.started
    phase,            \* "running", "closed" (after close()), "exited" (after a
                      \* signal), "crashed" (killed) or "failed" (constructor threw)
    timer,            \* the interval of flush_interval_id is active
    kill_event_listeners, \* the signal handlers are registered on the process
    _persist_lock,    \* the lock _persist() takes and set(), get(), getn() wait for
    files,            \* the segment files of database_path: name -> JSON texts
    index_json,       \* index.json:  <<>> when absent, else <<content>>
    rindex_json,      \* rindex.json: <<>> when absent, else <<content>>
    meta_json,        \* meta.json:   <<>> when absent, else <<content>>
    now,              \* the clock, (new Date()).getTime()
    next_ts,          \* rank of the next segment creation time
    opens,            \* number of instances constructed on the directory so far
    expected,         \* history: key -> value of the last set(key, value) that returned true
    ever_set,         \* history: key -> the values set(key, value) returned true for
    rotated_at,       \* history: when the active cache file was created (the last rotation)
    at_close,         \* history: what the instance answered just before close()
    last              \* history: the last API call and what it returned

vars == <<cache, cache_file_name, index, rindex, meta, started, phase, timer,
          kill_event_listeners, _persist_lock, files,
          index_json, rindex_json, meta_json, now, next_ts, opens, expected, ever_set, rotated_at,
          at_close, last>>

mem  == <<cache, cache_file_name, index, rindex, meta, started>>
disk == <<files, index_json, rindex_json, meta_json>>

----------------------------------------------------------------------------
(* Bounds of the model *)

MaxTime == 2
MaxSegments == 2
MaxOpens == 1
MaxRindexKey == 3
MaxLimit == 3

(* Configuration (this.config); the thresholds are scaled down *)

max_key_size_bytes == 1024
max_value_size_bytes == 1048576
persist_after_bytes == 9
persist_after_seconds == 1

file_prefix == "dbjs_"

----------------------------------------------------------------------------
(* Inputs *)

StringKeys == {"", "a", "constructor"}
AllKeys == StringKeys \cup {"[]", "LONG"}

StoredValues == {"x", "Infinity"}
AllValues == StoredValues \cup {"function", "circular", "HUGE"}

\* the calls of set: every accepted key with a value that survives JSON, one
\* key with every accepted value, every rejected key (the value is not looked
\* at), every rejected value
SetInputs ==
    (StringKeys \X {"x"})
        \cup ({"a"} \X StoredValues)
        \cup ((AllKeys \ StringKeys) \X {"x"})
        \cup ({"a"} \X (AllValues \ StoredValues))

\* Property names every JavaScript object inherits from Object.prototype
\* ("constructor", "toString", ...); "constructor" stands for them.
ObjectPrototype == {"constructor"}

\* index_range bounds tried by the model: from below 0 to above index_size()
Bounds == (0 - 1)..(Cardinality(StringKeys) + 1)

typeof_string(key) == key # "[]"

KeyLength(key) ==
    CASE key = "" -> 0
      [] key = "a" -> 1
      [] key = "b" -> 1
      [] key = "constructor" -> 11
      [] key = "LONG" -> max_key_size_bytes + 1
      [] OTHER -> 0

----------------------------------------------------------------------------
(* JSON *)

\* JSON.stringify(value): the text, "undefined" when it returns undefined,
\* "TypeError" when it throws.
JSON_stringify(value) ==
    CASE value = "x" -> "\"x\""
      [] value = "y" -> "\"y\""
      [] value = "Infinity" -> "null"
      [] value = "null" -> "null"
      [] value = "HUGE" -> "\"HUGE\""
      [] value = "function" -> "undefined"
      [] value = "circular" -> "TypeError"
      [] OTHER -> "undefined"

\* JSON.parse(text) of one array element
JSON_parse(text) ==
    CASE text = "\"x\"" -> "x"
      [] text = "\"y\"" -> "y"
      [] text = "null" -> "null"
      [] text = "\"HUGE\"" -> "HUGE"
      [] OTHER -> "undefined"

\* stringified.length
TextLength(text) ==
    CASE text = "\"x\"" -> 3
      [] text = "\"y\"" -> 3
      [] text = "null" -> 4
      [] text = "\"HUGE\"" -> max_value_size_bytes + 1
      [] OTHER -> 0

\* JSON.stringify(array) and JSON.parse(contents) of a segment file
StringifyArray(values) == [p \in 1..Len(values) |-> JSON_stringify(values[p])]
ParseArray(texts) == [p \in 1..Len(texts) |-> JSON_parse(texts[p])]

RECURSIVE SumLengths(_)
SumLengths(texts) ==
    IF texts = <<>> THEN 0 ELSE TextLength(Head(texts)) + SumLengths(Tail(texts))

\* Buffer.byteLength(JSON.stringify(array)): brackets, elements, commas
ByteLength(texts) ==
    2 + SumLengths(texts) + (IF Len(texts) > 0 THEN Len(texts) - 1 ELSE 0)

----------------------------------------------------------------------------
(* Sizes *)

index_size == Cardinality(DOMAIN index)
cache_size == Len(cache)
rindex_size == Cardinality(DOMAIN rindex)

----------------------------------------------------------------------------
(* File names and directory listings *)

ActiveName(ts) == <<"", ts>>
ArchivedName(ts) == <<file_prefix, ts>>
HasPrefix(file) == file[1] = file_prefix

\* 'dbjs_' + undefined: the file name built from a missing f property
UndefinedTs == 0 - 1

\* filtered.sort(...): the files with the largest timestamp first (the sort is
\* stable and readdir lists '3.json' before 'dbjs_3.json')
RECURSIVE SortNewestFirst(_)
SortNewestFirst(names) ==
    IF names = {} THEN <<>>
    ELSE LET first == CHOOSE n \in names :
                         \A m \in names : m[2] < n[2] \/ (m[2] = n[2] /\ (m = n \/ ~HasPrefix(n)))
         IN <<first>> \o SortNewestFirst(names \ {first})

\* _getFiles(include_memory_cache_file) on a directory holding `dir`
GetFilesOf(dir, include_memory_cache_file) ==
    SortNewestFirst({f \in DOMAIN dir : include_memory_cache_file \/ HasPrefix(f)})

_getFiles(include_memory_cache_file) == GetFilesOf(files, include_memory_cache_file)

----------------------------------------------------------------------------
(* Key and value checks *)

\* a check that forgets the type of the key
_check_key_any_type(key) ==
    IF KeyLength(key) > max_key_size_bytes THEN 0 - 1 ELSE 1

_check_key(key) ==
    IF ~typeof_string(key) THEN 0 - 1
    ELSE IF KeyLength(key) > max_key_size_bytes THEN 0 - 1
    ELSE 1

_check_value(value) ==
    LET stringified == JSON_stringify(value) IN
    IF stringified = "TypeError" THEN 0 - 1
    ELSE IF stringified = "undefined" THEN 0 - 1
    ELSE IF TextLength(stringified) > max_value_size_bytes THEN 0 - 1
    ELSE 1

----------------------------------------------------------------------------
(* Locating a key *)

\* the truth value of this.index[key]: an own entry, or a property every
\* object inherits
index_truthy(key) == key \in DOMAIN index \/ key \in ObjectPrototype

\* this.index[key].f; undefined for an inherited property
entry_f(key) == IF key \in DOMAIN index THEN index[key].f ELSE UndefinedTs

_get_memory_cache_index(key) ==
    IF key \in DOMAIN index
    THEN LET cache_index == index_size - (index[key].i + 1) IN
         IF cache_index < cache_size THEN cache_index ELSE 0 - 1
    ELSE 0 - 1   \* no entry, or an inherited one whose .i is undefined (NaN < n is false)

\* the sum of the sizes of the archive entries listed before `file`
RECURSIVE ArchiveOffset(_, _)
ArchiveOffset(archive, file) ==
    IF archive = <<>> THEN 0
    ELSE IF Head(archive).name[2] = file THEN 0
    ELSE Head(archive).size + ArchiveOffset(Tail(archive), file)

_get_archived_index(i, file, length) ==
    LET offset == ArchiveOffset(meta, file)
        file_index == i - offset
    IN (length - 1) - file_index

\* array[p] of a JavaScript array
At(array, p) == IF p >= 0 /\ p < Len(array) THEN array[p + 1] ELSE "undefined"

_load_from_file(key) ==
    LET path == ArchivedName(entry_f(key)) IN
    IF path \in DOMAIN files
    THEN LET parsed == ParseArray(files[path])
             file_index == _get_archived_index(index[key].i, index[key].f, Len(parsed))
         IN At(parsed, file_index)
    ELSE "null"

get(key) ==
    IF _check_key(key) # 1 THEN "undefined"
    ELSE IF index_truthy(key)
    THEN LET cache_index == _get_memory_cache_index(key) IN
         IF cache_index # 0 - 1 THEN At(cache, cache_index) ELSE _load_from_file(key)
    ELSE "undefined"

----------------------------------------------------------------------------
(* getn(index_range) *)

\* a relative index of array.slice: negative counts from the end, then clamped
SliceIndex(len, at) ==
    IF at < 0 THEN (IF len + at < 0 THEN 0 ELSE len + at)
    ELSE IF at > len THEN len ELSE at

\* array.slice(start, end)
Slice(array, start, end) ==
    LET from == SliceIndex(Len(array), start)
        to == SliceIndex(Len(array), end)
    IN IF from >= to THEN <<>> ELSE [p \in 1..(to - from) |-> array[from + p]]

\* the while loop of getn: the files up to and including the first one whose
\* name contains up_to_file
RECURSIVE ToLoad(_, _)
ToLoad(file_list, up_to_file) ==
    IF file_list = <<>> THEN <<>>
    ELSE IF Head(file_list)[2] = up_to_file THEN <<Head(file_list)>>
    ELSE <<Head(file_list)>> \o ToLoad(Tail(file_list), up_to_file)

\* retval = retval.concat(parsed_data) for every file of to_load
RECURSIVE ConcatFiles(_)
ConcatFiles(to_load) ==
    IF to_load = <<>> THEN <<>>
    ELSE ParseArray(files[Head(to_load)]) \o ConcatFiles(Tail(to_load))

\* "if we are overshooting, just return all data"
Overshoot(start_index, end_index, size) == end_index > size \/ start_index > size

\* a reset that clamps the end and keeps the start
StartAfterReset_kept(start_index, end_index, size) == start_index

StartAfterReset(start_index, end_index, size) ==
    IF Overshoot(start_index, end_index, size) THEN 0 ELSE start_index

EndAfterReset(start_index, end_index, size) ==
    IF Overshoot(start_index, end_index, size) THEN size ELSE end_index

\* a check that forgets the negative start
InvalidIndices_end_only(start_index, end_index) ==
    end_index < 0 \/ start_index > end_index

\* "check we have correct start_index and end_index"
InvalidIndices(start_index, end_index) ==
    start_index < 0 \/ end_index < 0 \/ start_index > end_index

\* getn([start_index, end_index]): [throws, out]; throws is TRUE when the call
\* ends in the ReferenceError of the log line that names the undeclared `retn`
getn(start_index, end_index) ==
    LET size == index_size
        s == StartAfterReset(start_index, end_index, size)
        e == EndAfterReset(start_index, end_index, size)
    IN
    IF InvalidIndices(s, e) THEN [throws |-> FALSE, out |-> <<>>]
    ELSE IF e <= Len(cache) THEN [throws |-> FALSE, out |-> Slice(cache, s, e)]
    ELSE IF (size - e) \in DOMAIN rindex /\ rindex[size - e] # ""   \* if (key)
    THEN LET key == rindex[size - e]
             up_to_file == index[key].f
             to_load == ToLoad(_getFiles(FALSE), up_to_file)
             retval == cache \o ConcatFiles(to_load)
         IN [throws |-> FALSE, out |-> Slice(retval, s, e)]
    ELSE [throws |-> TRUE, out |-> <<>>]

\* the files getn([start_index, end_index]) reads with fs.readFileSync, in the
\* order it reads them
FilesRead(start_index, end_index) ==
    LET size == index_size
        s == StartAfterReset(start_index, end_index, size)
        e == EndAfterReset(start_index, end_index, size)
    IN
    IF InvalidIndices(s, e) THEN <<>>
    ELSE IF e <= Len(cache) THEN <<>>
    ELSE IF (size - e) \in DOMAIN rindex /\ rindex[size - e] # ""   \* if (key)
    THEN ToLoad(_getFiles(FALSE), index[rindex[size - e]].f)
    ELSE <<>>

\* a getn() without arguments that ends at the index size
getn_default_all == getn(0, index_size)

\* getn() without arguments: start_index = 0, end_index = cache_size()
getn_default == getn(0, cache_size)

\* the loop of _binary_search: [start, end] when it ends
RECURSIVE BinarySearchLoop(_, _, _, _)
BinarySearchLoop(sortedArray, key, start, end) ==
    IF start > end THEN <<start, end>>
    ELSE LET middle == (start + end) \div 2 IN
         IF sortedArray[middle + 1] = key THEN <<start, end>>
         ELSE IF sortedArray[middle + 1] < key
              THEN BinarySearchLoop(sortedArray, key, middle + 1, end)
              ELSE BinarySearchLoop(sortedArray, key, start, middle - 1)

_binary_search(sortedArray, key) ==
    BinarySearchLoop(sortedArray, key, 0, Len(sortedArray) - 1)

\* for (let key in this.index) insertion_times.push(this.index[key].c): the
\* keys of the model are no integers, so the loop visits them in insertion
\* (seq) order
insertion_times == [p \in 1..index_size |-> index[rindex[p - 1]].c]

_binary_search_index(ts) == _binary_search(insertion_times, ts)[2]

\* getn(null, [t0, t1])
getn_time(t0, t1) == getn(_binary_search_index(t0) + 1, _binary_search_index(t1) + 1)

\* how getn treats its bounds: reset to the whole range (and what they were),
\* rejected, or used
BoundsClass(start_index, end_index) ==
    IF Overshoot(start_index, end_index, index_size)
    THEN IF InvalidIndices(start_index, end_index) THEN "overshoot, invalid"
         ELSE IF start_index > 0 /\ start_index <= index_size THEN "overshoot, start inside"
         ELSE "overshoot"
    ELSE IF InvalidIndices(start_index, end_index) THEN "invalid"
    ELSE "range"

\* what the instance answers: get of every key, the index, getn of every range
NoAnswers == [get |-> <<>>, index |-> <<>>, getn |-> <<>>]
Answers ==
    [get |-> [key \in DOMAIN index |-> get(key)],
     index |-> index,
     getn |-> [r \in Bounds \X Bounds |-> getn(r[1], r[2])]]

----------------------------------------------------------------------------
(* set(key, value) *)

\* array[p] = value of a JavaScript array, for 0 <= p <= array.length
AssignAt(array, p, value) ==
    IF p < Len(array) THEN [array EXCEPT ![p + 1] = value] ELSE Append(array, value)

\* an _update_file() that pushes the value to the end of the file
_update_file_pushed(key, value) ==
    LET path == ArchivedName(entry_f(key)) IN
    IF path \in DOMAIN files
    THEN [files EXCEPT ![path] = Append(files[path], JSON_stringify(value))]
    ELSE files

\* the files after _update_file(key, value)
_update_file(key, value) ==
    LET path == ArchivedName(entry_f(key)) IN
    IF path \in DOMAIN files
    THEN LET parsed == ParseArray(files[path])
             file_index == _get_archived_index(index[key].i, index[key].f, Len(parsed))
         IN IF file_index >= 0 /\ file_index <= Len(parsed)
            THEN [files EXCEPT ![path] = StringifyArray(AssignAt(parsed, file_index, value))]
            ELSE files
    ELSE files

\* the cache after the update of a key that is resident in the cache
UpdateCache(cache_index, value) ==
    IF cache_index >= 0 /\ cache_index <= Len(cache)
    THEN AssignAt(cache, cache_index, value)
    ELSE cache

\* a seq taken from the cache instead of the index
NewSeq_from_cache == cache_size

\* the seq given to a new key
NewSeq == index_size

\* an index entry whose seq is the position in the cache
NewEntry_seq_of_cache == [i |-> cache_size, f |-> cache_file_name, c |-> now]

\* an index entry whose timestamp is the age of the cache
NewEntry_age == [i |-> NewSeq, f |-> cache_file_name, c |-> now - started]

\* the index entry of a new key
NewEntry == [i |-> NewSeq, f |-> cache_file_name, c |-> now]

\* the cache after this.cache.unshift(value)
Unshift(value) == <<value>> \o cache

\* what set(key, value) adds to this._memory_cache_write_counter
memory_cache_writes(key) ==
    IF index_truthy(key)
    THEN IF _get_memory_cache_index(key) # 0 - 1 THEN 1 ELSE 0
    ELSE 1

\* what set(key, value) adds to this._file_cache_read_counter: _update_file()
\* reads the file if it exists
file_cache_reads(key) ==
    IF index_truthy(key) /\ _get_memory_cache_index(key) = 0 - 1
                         /\ ArchivedName(entry_f(key)) \in DOMAIN files
    THEN 1 ELSE 0

\* what set(key, value) adds to this._file_cache_write_counter: _update_file()
\* writes the file if the position is inside it
file_cache_writes(key) ==
    IF file_cache_reads(key) = 1
    THEN LET length == Len(files[ArchivedName(entry_f(key))])
             file_index == _get_archived_index(index[key].i, index[key].f, length)
         IN IF file_index >= 0 /\ file_index <= length THEN 1 ELSE 0
    ELSE 0

Call(op, arg, ret) == [op |-> op, arg |-> arg, ret |-> ret]
NoCall == Call("none", "", "")

set(key, value) ==
    /\ phase = "running"
    /\ IF _check_key(key) # 1 \/ _check_value(value) # 1
       THEN /\ last' = Call("set", "", "false")
            /\ UNCHANGED <<cache, index, rindex, files, expected, ever_set>>
       ELSE /\ ~_persist_lock   \* _wait_persist_lock() returns
            /\ last' = Call("set", "", "true")
            /\ expected' = (key :> value) @@ expected
            /\ ever_set' = (key :> ((IF key \in DOMAIN ever_set THEN ever_set[key] ELSE {})
                                        \cup {value})) @@ ever_set
            /\ IF index_truthy(key)
               THEN LET cache_index == _get_memory_cache_index(key) IN
                    /\ UNCHANGED <<index, rindex>>
                    /\ IF cache_index # 0 - 1
                       THEN /\ cache' = UpdateCache(cache_index, value)
                            /\ UNCHANGED files
                       ELSE /\ files' = _update_file(key, value)
                            /\ UNCHANGED cache
               ELSE /\ cache' = Unshift(value)
                    /\ index' = (key :> NewEntry) @@ index
                    /\ rindex' = (NewSeq :> key) @@ rindex
                    /\ UNCHANGED files
    /\ at_close' = NoAnswers
    /\ UNCHANGED <<cache_file_name, meta, started, phase, timer, kill_event_listeners,
                   _persist_lock,
                   index_json, rindex_json,
                   meta_json, now, next_ts, opens, rotated_at>>

----------------------------------------------------------------------------
(* _flush() and _persist() *)

\* a _flush() that leaves the cache file as it is
FlushFiles_skipped == files

\* a _flush() that appends the cache to the cache file
FlushFiles_appended ==
    IF cache_size > 0
    THEN (ActiveName(cache_file_name) :>
             files[ActiveName(cache_file_name)] \o StringifyArray(cache)) @@ files
    ELSE files

\* the segment files after _flush(): the cache file is written only when the
\* cache is not empty
FlushFiles ==
    IF cache_size > 0
    THEN (ActiveName(cache_file_name) :> StringifyArray(cache)) @@ files
    ELSE files

space_exceeded == ByteLength(StringifyArray(cache)) >= persist_after_bytes
time_exceeded == (now - started) >= persist_after_seconds

\* "only archive an non-empty cache"
archive == (space_exceeded \/ time_exceeded) /\ cache_size > 0

\* a catalog entry that records the bytes of the segment instead
ArchivedSize_in_bytes == ByteLength(StringifyArray(cache))

\* the size the catalog records for the segment being sealed
ArchivedSize == cache_size

\* a rotation that records no catalog entry
AssignArchive_unrecorded(arch, name, size) == arch

\* this.meta.archive[name] = {size: size}: a new property goes last, an
\* existing one keeps its place
RECURSIVE AssignArchive(_, _, _)
AssignArchive(arch, name, size) ==
    IF arch = <<>> THEN <<[name |-> name, size |-> size]>>
    ELSE IF Head(arch).name = name THEN <<[name |-> name, size |-> size]>> \o Tail(arch)
    ELSE <<Head(arch)>> \o AssignArchive(Tail(arch), name, size)

\* fs.renameSync(from, to)
Rename(dir, from, to) ==
    [f \in (DOMAIN dir \ {from}) \cup {to} |-> IF f = to THEN dir[from] ELSE dir[f]]

\* the segment files after the rotation: the flushed cache file renamed, and
\* the new cache file written by _create_cache_file()
RotateFiles ==
    (ActiveName(next_ts) :> <<>>) @@
        Rename(FlushFiles, ActiveName(cache_file_name), ArchivedName(cache_file_name))

\* a _persist() that returns without its last line (lock off)
_persist_lock_kept ==
    /\ _persist_lock' = TRUE
    /\ index_json' = <<index>>
    /\ rindex_json' = <<rindex>>
    /\ UNCHANGED <<index, rindex, now, opens, expected, ever_set>>
    /\ rotated_at' = IF archive THEN now ELSE rotated_at
    /\ IF archive
       THEN /\ next_ts <= MaxSegments
            /\ files' = RotateFiles
            /\ meta' = AssignArchive(meta, ArchivedName(cache_file_name), ArchivedSize)
            /\ meta_json' = <<meta'>>
            /\ cache' = <<>>
            /\ cache_file_name' = next_ts
            /\ next_ts' = next_ts + 1
            /\ started' = now
       ELSE /\ files' = FlushFiles
            /\ meta_json' = <<meta>>
            /\ UNCHANGED <<cache, cache_file_name, meta, started, next_ts>>

\* _persist() runs to its end without giving up control: the lock it takes
\* at its first line is off again at its last
_persist ==
    /\ _persist_lock' = FALSE
    /\ index_json' = <<index>>
    /\ rindex_json' = <<rindex>>
    /\ UNCHANGED <<index, rindex, now, opens, expected, ever_set>>
    /\ rotated_at' = IF archive THEN now ELSE rotated_at
    /\ IF archive
       THEN /\ next_ts <= MaxSegments
            /\ files' = RotateFiles
            /\ meta' = AssignArchive(meta, ArchivedName(cache_file_name), ArchivedSize)
            /\ meta_json' = <<meta'>>
            /\ cache' = <<>>
            /\ cache_file_name' = next_ts
            /\ next_ts' = next_ts + 1
            /\ started' = now
       ELSE /\ files' = FlushFiles
            /\ meta_json' = <<meta>>
            /\ UNCHANGED <<cache, cache_file_name, meta, started, next_ts>>

\* the callback of setInterval(..., flush_interval * 1000)
\* the callback of setInterval(..., flush_interval * 1000): it runs as long as
\* the interval is active
TimerPersist ==
    /\ timer
    /\ _persist
    /\ last' = Call("persist", phase, IF archive THEN "rotated" ELSE "flushed")
    /\ at_close' = NoAnswers
    /\ UNCHANGED <<phase, timer, kill_event_listeners>>

\* close(), also on an instance that was closed before (nothing records that
\* close() was called)
close ==
    /\ phase \in {"running", "closed"}
    /\ _persist
    /\ last' = Call("close", phase, IF archive THEN "rotated" ELSE "flushed")
    /\ at_close' = Answers
    /\ phase' = "closed"
    /\ timer' = FALSE
    /\ kill_event_listeners' = FALSE

\* a termination signal while the handlers are registered; the process exits
_on_kill ==
    /\ phase = "running"
    /\ kill_event_listeners
    /\ _persist
    /\ last' = Call("kill", phase, IF archive THEN "rotated" ELSE "flushed")
    /\ at_close' = Answers
    /\ phase' = "exited"
    /\ timer' = FALSE
    /\ kill_event_listeners' = FALSE

\* the places where the process can be killed: between two calls, or inside
\* _persist() after one of its writes (_flush() writes the cache file,
\* index.json, rindex.json and meta.json, the rotation renames the cache file,
\* writes meta.json and creates the new cache file)
CrashPoints ==
    {"between calls", "after cache file", "after index.json", "after rindex.json",
     "after meta.json", "after rename", "after meta.json of the rotation"}

\* the number of writes of _persist() done at a crash point
Writes(point) ==
    CASE point = "between calls" -> 0
      [] point = "after cache file" -> 1
      [] point = "after index.json" -> 2
      [] point = "after rindex.json" -> 3
      [] point = "after meta.json" -> 4
      [] point = "after rename" -> 5
      [] point = "after meta.json of the rotation" -> 6

\* the process is killed (no handler runs): the memory is gone, the directory
\* keeps the writes done so far
Crash(point) ==
    LET k == Writes(point) IN
    /\ phase = "running"
    /\ k >= 5 => archive
    /\ files' = IF k >= 5
                THEN Rename(FlushFiles, ActiveName(cache_file_name),
                            ArchivedName(cache_file_name))
                ELSE IF k >= 1 THEN FlushFiles ELSE files
    /\ index_json' = IF k >= 2 THEN <<index>> ELSE index_json
    /\ rindex_json' = IF k >= 3 THEN <<rindex>> ELSE rindex_json
    /\ meta_json' = IF k >= 6
                    THEN <<AssignArchive(meta, ArchivedName(cache_file_name), ArchivedSize)>>
                    ELSE IF k >= 4 THEN <<meta>> ELSE meta_json
    /\ phase' = "crashed"
    /\ timer' = FALSE
    /\ kill_event_listeners' = FALSE
    /\ _persist_lock' = FALSE
    /\ last' = Call("crash", point, "")
    /\ at_close' = NoAnswers
    /\ UNCHANGED <<mem, now, next_ts, opens, expected, ever_set, rotated_at>>

\* close() whose _persist() throws at the first write of _flush() (the
\* directory is gone or the disk is full) and whose caller catches the error:
\* the lock taken at the first line of _persist() stays on, the listeners and
\* the interval stay as they are
close_throws ==
    /\ phase = "running"
    /\ _persist_lock' = TRUE
    /\ last' = Call("close", phase, "threw")
    /\ at_close' = NoAnswers
    /\ UNCHANGED <<mem, disk, phase, timer, kill_event_listeners, now, next_ts, opens,
                   expected, ever_set, rotated_at>>

\* the loop of _wait_persist_lock() never gives up control: nothing else
\* runs in the process from then on
Hang ==
    /\ phase' = "hung"
    /\ timer' = FALSE
    /\ kill_event_listeners' = FALSE
    /\ at_close' = NoAnswers
    /\ UNCHANGED <<mem, disk, _persist_lock, now, next_ts, opens, expected, ever_set, rotated_at>>

\* set() or get() with a valid key while the lock is on: the call waits at its
\* _wait_persist_lock(), before it reads the index
WaitLocked(op) ==
    /\ phase = "running"
    /\ _persist_lock
    /\ last' = Call(op, "", "waiting")
    /\ Hang

\* getn() while the lock is on: the call evaluates this.cache_size() and
\* this.index_size() and then waits at its _wait_persist_lock()
GetnLocked ==
    /\ phase = "running"
    /\ _persist_lock
    /\ last' = Call("getn", "cache_size, index_size", "waiting")
    /\ Hang

----------------------------------------------------------------------------
(* The constructor: loading the directory and the consistency checks *)

RECURSIVE SumSet(_)
SumSet(S) == IF S = {} THEN 0 ELSE LET x == CHOOSE y \in S : TRUE IN x + SumSet(S \ {x})

RECURSIVE SumSizes(_)
SumSizes(arch) == IF arch = <<>> THEN 0 ELSE Head(arch).size + SumSizes(Tail(arch))

RECURSIVE NumItems(_, _)
NumItems(dir, names) ==
    IF names = {} THEN 0
    ELSE LET f == CHOOSE g \in names : TRUE IN Len(dir[f]) + NumItems(dir, names \ {f})

ArchiveNames(arch) == {arch[p].name : p \in 1..Len(arch)}

\* a rindex check against the sum of 1 .. n
RindexHealthy_from_one(ri) ==
    LET n == Cardinality(DOMAIN ri) IN
    n > 0 => SumSet(DOMAIN ri) = ((n + 1) * n) \div 2

\* the rindex check: the sum of the keys equals (n - 1) * n / 2
RindexHealthy(ri) ==
    LET n == Cardinality(DOMAIN ri) IN
    n > 0 => SumSet(DOMAIN ri) = ((n - 1) * n) \div 2

\* checks that leave the catalog out
_consistency_checks_without_catalog(c, idx, ri, arch, dir) ==
    LET isize == Cardinality(DOMAIN idx)
        rsize == Cardinality(DOMAIN ri)
        num_items == NumItems(dir, DOMAIN dir)
    IN /\ RindexHealthy(ri)
       /\ isize = rsize
       /\ ~(isize # num_items /\ num_items # rsize)

\* TRUE when _consistency_checks() returns without throwing
_consistency_checks(c, idx, ri, arch, dir) ==
    LET isize == Cardinality(DOMAIN idx)
        rsize == Cardinality(DOMAIN ri)
        num_items == NumItems(dir, DOMAIN dir)
        sum == SumSizes(arch)
    IN /\ RindexHealthy(ri)
       /\ isize = rsize
       /\ \A file \in {f \in DOMAIN dir : HasPrefix(f)} : file \in ArchiveNames(arch)
       /\ ~(isize # num_items /\ num_items # rsize)
       /\ ~(sum # isize - Len(c) \/ sum # rsize - Len(c))

\* _load_cache(): the newest file without the prefix, if there is one
ActualFiles(dir) == SelectSeq(GetFilesOf(dir, TRUE), LAMBDA f : ~HasPrefix(f))

\* _load_index(name) and _load_meta(): the parsed file, or an empty object
LoadJson(file) == IF file = <<>> THEN <<>> ELSE file[1]

\* new DBjs(config) on the directory a closed instance left
Open ==
    /\ phase \in {"closed", "exited", "crashed"}
    /\ opens < MaxOpens
    /\ opens' = opens + 1
    /\ LET actual == ActualFiles(files)
           fresh == actual = <<>>
           c == IF fresh THEN <<>> ELSE ParseArray(files[actual[1]])
           dir == IF fresh THEN (ActiveName(next_ts) :> <<>>) @@ files ELSE files
           idx == LoadJson(index_json)
           ri == LoadJson(rindex_json)
           arch == LoadJson(meta_json)
       IN /\ fresh => next_ts <= MaxSegments
          /\ cache' = c
          /\ cache_file_name' = IF fresh THEN next_ts ELSE actual[1][2]
          /\ next_ts' = IF fresh THEN next_ts + 1 ELSE next_ts
          /\ rotated_at' = IF fresh THEN now ELSE rotated_at
          /\ files' = dir
          /\ index' = idx
          /\ rindex' = ri
          /\ meta' = arch
          /\ phase' = IF _consistency_checks(c, idx, ri, arch, dir) THEN "running" ELSE "failed"
    /\ started' = now
    /\ timer' = TRUE   \* setInterval comes before _consistency_checks()
    /\ kill_event_listeners' = (phase' = "running")   \* process.on comes after them
    /\ _persist_lock' = FALSE
    /\ last' = Call("open", phase, IF phase' = "running" THEN "running" ELSE "failed")
    /\ UNCHANGED <<index_json, rindex_json, meta_json, now, expected, ever_set, at_close>>

----------------------------------------------------------------------------
(* Reads, the clock, and the specification *)

\* where get(key) takes its answer from
Source(key) ==
    IF _check_key(key) # 1 \/ ~index_truthy(key) THEN "absent"
    ELSE IF _get_memory_cache_index(key) # 0 - 1 THEN "memory"
    ELSE "file"

Get(key) ==
    /\ phase = "running"
    /\ _check_key(key) = 1 => ~_persist_lock   \* _wait_persist_lock() returns
    /\ last' = Call("get", Source(key), "")
    /\ at_close' = NoAnswers
    /\ UNCHANGED <<mem, disk, phase, timer, kill_event_listeners, _persist_lock, now, next_ts, opens, expected, ever_set,
                   rotated_at>>

Getn(start_index, end_index) ==
    /\ phase = "running"
    /\ ~_persist_lock   \* _wait_persist_lock() returns
    /\ last' = Call("getn", BoundsClass(start_index, end_index),
                    IF getn(start_index, end_index).throws THEN "ReferenceError" ELSE "ok")
    /\ at_close' = NoAnswers
    /\ UNCHANGED <<mem, disk, phase, timer, kill_event_listeners, _persist_lock, now, next_ts, opens, expected, ever_set,
                   rotated_at>>

\* getn() without arguments
GetnDefault ==
    /\ phase = "running"
    /\ ~_persist_lock   \* _wait_persist_lock() returns
    /\ last' = Call("getn", "no range",
                    IF getn_default.throws THEN "ReferenceError" ELSE "ok")
    /\ at_close' = NoAnswers
    /\ UNCHANGED <<mem, disk, phase, timer, kill_event_listeners, _persist_lock, now, next_ts, opens, expected, ever_set,
                   rotated_at>>

GetnTime(t0, t1) ==
    /\ phase = "running"
    /\ ~_persist_lock   \* _wait_persist_lock() returns
    /\ last' = Call("getn_time", IF t0 <= t1 THEN "ordered" ELSE "inverted",
                    IF getn_time(t0, t1).throws THEN "ReferenceError" ELSE "ok")
    /\ at_close' = NoAnswers
    /\ UNCHANGED <<mem, disk, phase, timer, kill_event_listeners, _persist_lock, now, next_ts, opens, expected, ever_set,
                   rotated_at>>

Tick ==
    /\ now < MaxTime
    /\ now' = now + 1
    /\ UNCHANGED <<mem, disk, phase, timer, kill_event_listeners, _persist_lock, next_ts, opens, expected, ever_set,
                   rotated_at, at_close, last>>

\* the timestamps a caller may ask for: the clock's range and one beyond
Times == (0 - 1)..(MaxTime + 1)

\* the timestamps the calls of getn(null, [t0, t1]) are made with: before every
\* insertion, the first instant, after every insertion
TimesAsked == {0 - 1, 0, MaxTime + 1}

\* the bounds around the current index size
BoundsNow == (0 - 1)..(index_size + 1)

\* new DBjs(config) on a directory that does not exist yet
Init ==
    /\ cache = <<>>
    /\ cache_file_name = 0
    /\ index = <<>>
    /\ rindex = <<>>
    /\ meta = <<>>
    /\ started = 0
    /\ phase = "running"
    /\ timer = TRUE
    /\ kill_event_listeners = TRUE
    /\ _persist_lock = FALSE
    /\ files = (ActiveName(0) :> <<>>)
    /\ index_json = <<>>
    /\ rindex_json = <<>>
    /\ meta_json = <<>>
    /\ now = 0
    /\ next_ts = 1
    /\ opens = 0
    /\ expected = <<>>
    /\ ever_set = <<>>
    /\ rotated_at = 0
    /\ at_close = NoAnswers
    /\ last = NoCall

Next ==
    \/ \E input \in SetInputs : set(input[1], input[2])
    \/ \E key \in AllKeys : Get(key)
    \/ \E start_index \in BoundsNow, end_index \in BoundsNow : Getn(start_index, end_index)
    \/ GetnDefault
    \/ \E t0 \in TimesAsked, t1 \in TimesAsked : GetnTime(t0, t1)
    \/ TimerPersist
    \/ close
    \/ _on_kill
    \/ Open
    \/ Tick

Spec == Init /\ [][Next]_vars

\* the writing operations with a process that can be killed at any point (the
\* reads change neither the memory nor the directory)
NextCrash ==
    \/ \E input \in SetInputs : set(input[1], input[2])
    \/ TimerPersist
    \/ close
    \/ _on_kill
    \/ Open
    \/ Tick
    \/ \E point \in CrashPoints : Crash(point)

CrashSpec == Init /\ [][NextCrash]_vars

\* the integer keys a rindex.json written by hand can have
TamperedKeys == (0 - 1)..MaxRindexKey

\* rindex.json of a closed database is replaced by an object with other keys
\* that name a key of the index (_load_index() parses whatever the file holds)
Tamper(keys) ==
    /\ phase = "closed"
    /\ last.op # "tamper"   \* one edit between two instances
    /\ opens < MaxOpens
    /\ rindex_json # <<>>
    /\ index_size > 0
    /\ rindex_json' = <<[seq \in keys |-> CHOOSE key \in DOMAIN index : TRUE]>>
    /\ rindex_json' # rindex_json
    /\ last' = Call("tamper", "rindex.json", "")
    /\ UNCHANGED <<mem, files, index_json, meta_json, phase, timer, kill_event_listeners,
                   _persist_lock, now, next_ts, opens, expected, ever_set, rotated_at, at_close>>

\* one instance, its directory edited while it is closed, and the next instance
NextCorrupt ==
    \/ \E input \in SetInputs : set(input[1], input[2])
    \/ TimerPersist
    \/ close
    \/ Tick
    \/ \E keys \in SUBSET TamperedKeys : Tamper(keys)
    \/ Open

CorruptSpec == Init /\ [][NextCorrupt]_vars

\* the operations of one instance whose close() can throw
NextFault ==
    \/ \E input \in SetInputs : set(input[1], input[2])
    \/ \E key \in AllKeys : Get(key)
    \/ \E start_index \in BoundsNow, end_index \in BoundsNow : Getn(start_index, end_index)
    \/ TimerPersist
    \/ close
    \/ Tick
    \/ close_throws
    \/ \E op \in {"set", "get"} : WaitLocked(op)
    \/ GetnLocked

FaultSpec == Init /\ [][NextFault]_vars

----------------------------------------------------------------------------
(* walk(callbacks, limit) and filter(callback_str, limit) *)

\* the limits passed to walk and filter; Number.isInteger(limit) holds for
\* each of them
Limits == 0..MaxLimit

\* the truth value of a stored value in if (data)
Truthy(data) == data \notin {"null", "undefined"}

\* the code strings passed to filter: "if (<data is one of selects>)
\* results.push(data)", or a string whose evaluation throws
CallbackStrings ==
    {[selects |-> S, throws |-> FALSE] : S \in SUBSET {"x", "null"}}
        \cup {[selects |-> {}, throws |-> TRUE]}

\* a walk that reads every file whatever the limit is
RECURSIVE WalkFiles_unlimited(_, _, _)
WalkFiles_unlimited(file_list, num, limit) ==
    IF file_list = <<>> THEN <<>>
    ELSE <<ParseArray(files[Head(file_list)])>>
             \o WalkFiles_unlimited(Tail(file_list), num, limit)

\* the loop of walk over the archived files: the arrays the callbacks are
\* called with, num being the number of items visited before
RECURSIVE WalkFiles(_, _, _)
WalkFiles(file_list, num, limit) ==
    IF file_list = <<>> THEN <<>>
    ELSE LET parsed_data == ParseArray(files[Head(file_list)]) IN
         <<parsed_data>> \o
             (IF num + Len(parsed_data) >= limit THEN <<>>
              ELSE WalkFiles(Tail(file_list), num + Len(parsed_data), limit))

\* walk(callbacks, limit): the arrays every callback is called with, in order
walk(limit) ==
    <<cache>> \o (IF Len(cache) >= limit THEN <<>>
                  ELSE WalkFiles(_getFiles(FALSE), Len(cache), limit))

\* the loop of filter over the archived files: the arrays it iterates over
RECURSIVE FilterFiles(_, _, _)
FilterFiles(file_list, num, limit) ==
    IF file_list = <<>> THEN <<>>
    ELSE LET parsed_data == ParseArray(files[Head(file_list)]) IN
         <<parsed_data>> \o
             (IF num + Len(parsed_data) >= limit THEN <<>>
              ELSE FilterFiles(Tail(file_list), num + Len(parsed_data), limit))

RECURSIVE Flatten(_)
Flatten(arrays) == IF arrays = <<>> THEN <<>> ELSE Head(arrays) \o Flatten(Tail(arrays))

\* the values eval(callback_str) runs on: for (let data of array) if (data)
Evaluated(array) == SelectSeq(array, Truthy)

\* the values the evaluations push to results
Pushed(callback_str, array) ==
    SelectSeq(array, LAMBDA data : Truthy(data) /\ data \in callback_str.selects)

\* filter(callback_str, limit): the shape of the value returned (the array
\* results, the object {results, obj}, or the string of a caught error), the
\* results and the values the code string was evaluated on
filter(callback_str, limit) ==
    LET in_files == Flatten(FilterFiles(_getFiles(FALSE), Len(cache), limit)) IN
    IF callback_str.throws /\ Evaluated(cache) # <<>>
    THEN [shape |-> "string", results |-> <<>>, evaluated |-> <<Head(Evaluated(cache))>>]
    ELSE IF Len(cache) >= limit
    THEN [shape |-> "array", results |-> Pushed(callback_str, cache),
          evaluated |-> Evaluated(cache)]
    ELSE IF callback_str.throws /\ Evaluated(in_files) # <<>>
    THEN [shape |-> "string", results |-> <<>>,
          evaluated |-> Evaluated(cache) \o <<Head(Evaluated(in_files))>>]
    ELSE [shape |-> "object", results |-> Pushed(callback_str, cache \o in_files),
          evaluated |-> Evaluated(cache \o in_files)]

\* walk() reads the cache and the files and returns true
Walk(limit) ==
    /\ phase = "running"
    /\ last' = Call("walk", IF Len(walk(limit)) = 1 THEN "cache" ELSE "files", "true")
    /\ at_close' = NoAnswers
    /\ UNCHANGED <<mem, disk, phase, timer, kill_event_listeners, _persist_lock, now,
                   next_ts, opens, expected, ever_set, rotated_at>>

Filter(callback_str, limit) ==
    /\ phase = "running"
    /\ last' = Call("filter", IF callback_str.throws THEN "throws" ELSE "selects",
                    filter(callback_str, limit).shape)
    /\ at_close' = NoAnswers
    /\ UNCHANGED <<mem, disk, phase, timer, kill_event_listeners, _persist_lock, now,
                   next_ts, opens, expected, ever_set, rotated_at>>

\* the calls of set of an instance that is scanned: null is a value set() accepts
\* and JSON keeps
ScanInputs ==
    {<<"", "x">>, <<"a", "x">>, <<"a", "null">>, <<"b", "x">>}

\* one instance that is written, checkpointed and scanned
NextScan ==
    \/ \E input \in ScanInputs : set(input[1], input[2])
    \/ TimerPersist
    \/ Tick
    \/ \E limit \in Limits : Walk(limit)
    \/ \E callback_str \in CallbackStrings, limit \in Limits : Filter(callback_str, limit)

ScanSpec == Init /\ [][NextScan]_vars

----------------------------------------------------------------------------
(* The claims *)

\* the value get(key) is expected to return: the one last set
Stored(key) == expected[key]

\* C1: once set(k, v) has returned true, get(k) returns v until the next
\* successful set on k, whatever sets, checkpoints and rotations happen in
\* between.
C1_GetReturnsLastSet ==
    phase = "running" => \A key \in DOMAIN expected : get(key) = Stored(key)

\* the seqs of the N keys set so far are 0..N-1, each once, and rindex is the
\* inverse of the index
C2_State ==
    LET N == Cardinality(DOMAIN expected) IN
    /\ index_size = N
    /\ {index[key].i : key \in DOMAIN index} = 0..(N - 1)
    /\ \A k1, k2 \in DOMAIN index : index[k1].i = index[k2].i => k1 = k2
    /\ DOMAIN rindex = 0..(N - 1)
    /\ \A key \in DOMAIN index : rindex[index[key].i] = key

\* a key set for the first time gets the next seq, the others keep theirs
C2_FirstInsert ==
    \A key \in AllKeys, value \in AllValues :
        (set(key, value) /\ last'.ret = "true" /\ key \notin DOMAIN expected)
            => /\ key \in DOMAIN index'
               /\ index'[key].i = Cardinality(DOMAIN expected)
               /\ \A other \in DOMAIN index : index'[other].i = index[other].i

\* C2: index_size() is the number of distinct keys successfully inserted, the
\* seq values are exactly 0..N-1 without gap or reuse, and rindex read by seq
\* lists the keys in the order of their first insertion (a key inserted for the
\* first time gets the next seq).
C2_InsertionOrder == [](phase = "running" => C2_State) /\ [][C2_FirstInsert]_vars

\* what a successful set on an existing key changes and what it leaves alone
C3_Update ==
    \A key \in DOMAIN index, value \in AllValues :
        (set(key, value) /\ last'.ret = "true")
            => /\ index_size' = index_size
               /\ cache_size' = cache_size
               /\ rindex' = rindex
               /\ index'[key] = index[key]
               /\ get(key)' = value

\* C3: set(k, v2) on an existing key leaves index_size(), cache_size(), rindex
\* and k's index entry unchanged, in the cache and in a sealed segment alike,
\* and a following get(k) returns v2.
C3_UpdateExisting == [][C3_Update]_vars

\* the values of all keys, newest insertion first
AllNewestFirst == [p \in 1..index_size |-> Stored(rindex[index_size - p])]

\* C4: in every reachable state getn([0, index_size()]) returns the current
\* value of every key exactly once, newest insertion first.
C4_GetnAll ==
    phase = "running"
        => getn(0, index_size) = [throws |-> FALSE, out |-> AllNewestFirst]

\* C5: after close(), a new instance on the same directory passes its startup
\* checks and answers get(k), the index entries and getn([s, e]) exactly as the
\* closed instance did just before close().
C5_Restart ==
    (last.op = "open" /\ last.arg = "closed") => (phase = "running" /\ Answers = at_close)

\* what a _persist() that rotates changes and what it leaves alone
C6_Rotate ==
    (_persist /\ archive)
        => /\ cache_size' = 0
           /\ Len(meta') = Len(meta) + 1
           /\ SubSeq(meta', 1, Len(meta)) = meta
           /\ meta'[Len(meta')].size = cache_size
           /\ index_size' = index_size
           /\ index' = index
           /\ rindex' = rindex

\* C6: a rotation leaves cache_size() = 0, adds exactly one catalog entry whose
\* size is the cache size just before the rotation, and leaves index_size(),
\* index and rindex unchanged.
C6_Rotation == [][C6_Rotate]_vars

C6_Witness == last.op = "persist" /\ last.arg = "running" /\ last.ret = "rotated" /\ Len(meta) = 2 /\ index_size = 2

\* the inputs the claim names: a key that is no string or too long, a value
\* that cannot be serialized or is too long once serialized
InvalidKey(key) == ~typeof_string(key) \/ KeyLength(key) > max_key_size_bytes
InvalidValue(value) ==
    \/ JSON_stringify(value) \in {"undefined", "TypeError"}
    \/ TextLength(JSON_stringify(value)) > max_value_size_bytes

InvalidInputs ==
    {input \in AllKeys \X AllValues : InvalidKey(input[1]) \/ InvalidValue(input[2])}

\* a set step with one of these inputs answers false and changes nothing (a set
\* step records itself in last, which is the cheaper test and comes first)
C7_Reject ==
    (last'.op = "set" /\ \E input \in InvalidInputs : set(input[1], input[2]))
        => (last'.ret = "false" /\ UNCHANGED <<cache, index, rindex, meta, files>>)

\* C7: a set call with an invalid key or value returns false and leaves cache,
\* index, rindex, catalog and every segment file unchanged.
C7_InvalidRejected == [][C7_Reject]_vars

C7_Witness == last.op = "set" /\ last.ret = "false" /\ index_size = 2 /\ Len(meta) = 1

\* C8: in every state of a running instance index_size() = rindex_size(), the
\* rindex keys are exactly 0..index_size()-1, and cache_size() is index_size()
\* minus the sum of the catalog sizes.
C8_Sizes ==
    phase = "running"
        => /\ index_size = rindex_size
           /\ DOMAIN rindex = 0..(index_size - 1)
           /\ cache_size = index_size - SumSizes(meta)

C8_Witness ==
    phase = "running" /\ opens = 1 /\ Len(meta) = 1 /\ cache_size = 1 /\ index_size = 2

\* C9: for 0 <= s <= index_size() < e, getn([s, e]) returns the values at the
\* newest-first positions s .. index_size()-1: the end bound is clamped, the
\* start bound is kept.
C9_StartKept ==
    phase = "running" =>
        \A s \in Bounds, e \in Bounds :
            (0 <= s /\ s <= index_size /\ index_size < e)
                => getn(s, e) = [throws |-> getn(0, index_size).throws,
                                 out |-> Slice(getn(0, index_size).out, s, index_size)]

\* C9 as amended: for 0 <= s <= index_size() < e, getn([s, e]) returns exactly
\* what getn([0, index_size()]) returns: both bounds are reset.
C9_ResetToAll ==
    phase = "running" =>
        \A s \in Bounds, e \in Bounds :
            (0 <= s /\ s <= index_size /\ index_size < e)
                => getn(s, e) = getn(0, index_size)

C9_Witness ==
    /\ last.op = "getn" /\ last.arg = "overshoot, start inside" /\ last.ret = "ok"
    /\ index_size = 2 /\ Len(meta) = 1 /\ cache_size = 1

\* C10: getn([s, e]) is empty whenever s < 0, e < 0 or s > e, whatever the
\* other bound is, also when it is larger than index_size().
C10_InvalidEmpty ==
    phase = "running" =>
        \A s \in Bounds, e \in Bounds :
            (s < 0 \/ e < 0 \/ s > e) => getn(s, e) = [throws |-> FALSE, out |-> <<>>]

\* C10 as amended: getn([s, e]) is empty whenever s < 0, e < 0 or s > e and
\* neither bound is larger than index_size(); when one is, the call returns
\* what getn([0, index_size()]) returns.
C10_InvalidEmptyInside ==
    phase = "running" =>
        \A s \in Bounds, e \in Bounds :
            (s < 0 \/ e < 0 \/ s > e)
                => IF s <= index_size /\ e <= index_size
                   THEN getn(s, e) = [throws |-> FALSE, out |-> <<>>]
                   ELSE getn(s, e) = getn(0, index_size)

C10_Witness ==
    /\ last.op = "getn" /\ last.arg = "invalid" /\ last.ret = "ok"
    /\ index_size = 2 /\ Len(meta) = 1 /\ cache_size = 1

\* the values of the keys created between t0 and t1, newest insertion first
RECURSIVE CreatedBetween(_, _, _)
CreatedBetween(p, t0, t1) ==
    IF p > index_size THEN <<>>
    ELSE LET key == rindex[index_size - p] IN
         (IF t0 <= index[key].c /\ index[key].c <= t1 THEN <<Stored(key)>> ELSE <<>>)
             \o CreatedBetween(p + 1, t0, t1)

\* C11: getn(null, [t0, t1]) with t0 <= t1 returns exactly the values of the
\* keys whose created_at lies between t0 and t1.
C11_TimeRange ==
    phase = "running" =>
        \A t0 \in Times, t1 \in Times :
            t0 <= t1 => getn_time(t0, t1) =
                            [throws |-> FALSE, out |-> CreatedBetween(1, t0, t1)]

\* the files hold the last value set on key: index.json and rindex.json list
\* the key as the index does, and the segment file of the key holds the
\* serialized value at the key's position
Durable(key) ==
    /\ key \in DOMAIN index
    /\ index_json # <<>> /\ key \in DOMAIN index_json[1] /\ index_json[1][key] = index[key]
    /\ rindex_json # <<>> /\ index[key].i \in DOMAIN rindex_json[1]
    /\ rindex_json[1][index[key].i] = key
    /\ LET cache_index == _get_memory_cache_index(key)
           path == IF cache_index # 0 - 1 THEN ActiveName(index[key].f)
                   ELSE ArchivedName(index[key].f)
       IN /\ path \in DOMAIN files
          /\ LET file_index == IF cache_index # 0 - 1 THEN cache_index
                               ELSE _get_archived_index(index[key].i, index[key].f,
                                                        Len(files[path]))
             IN /\ file_index >= 0 /\ file_index < Len(files[path])
                /\ files[path][file_index + 1] = JSON_stringify(Stored(key))

\* C12: every set that returned true is reflected in the durable files by the
\* next checkpoint (timer tick, close() or signal) after it.
C12_Checkpoint ==
    [][_persist => \A key \in DOMAIN expected : Durable(key)']_vars

\* the same for the keys that are no inherited property names
C12_OwnKeys ==
    [][_persist => \A key \in DOMAIN expected \ ObjectPrototype : Durable(key)']_vars

\* C13: when a startup consistency check fails the instance never runs: it
\* keeps no periodic checkpoint timer active and never writes a file afterwards.
C13_FailedStartup ==
    [](phase = "failed" => ~timer) /\ [][phase = "failed" => UNCHANGED disk]_vars

\* C14: closing is idempotent: a second close() changes neither the memory
\* state nor any file (no checkpoint is written, no segment is rotated).
C14_CloseIdempotent ==
    [][(last'.op = "close" /\ phase = "closed" /\ close) => UNCHANGED <<mem, disk>>]_vars

\* the directory holds what the memory holds: the cache file the cache,
\* index.json the index, rindex.json the rindex, meta.json the catalog, and
\* every segment of the catalog is a file with the recorded number of items
DiskReflectsMemory ==
    /\ ActiveName(cache_file_name) \in DOMAIN files
    /\ files[ActiveName(cache_file_name)] = StringifyArray(cache)
    /\ index_json = <<index>>
    /\ rindex_json = <<rindex>>
    /\ meta_json = <<meta>>
    /\ \A n \in 1..Len(meta) :
          meta[n].name \in DOMAIN files /\ Len(files[meta[n].name]) = meta[n].size

\* C15: after close() the interval is cancelled, the signal handlers are
\* removed and the files reflect the cache, the index, the rindex and the
\* catalog; no periodic checkpoint and no signal handler runs for the closed
\* instance.
C15_Close ==
    /\ [](phase = "closed" => (~timer /\ ~kill_event_listeners /\ DiskReflectsMemory))
    /\ [][phase = "closed" => last'.op \notin {"persist", "kill"}]_vars

\* a close() that wrote a checkpoint of a cache, an index and a catalog that
\* are not empty
C15_Witness ==
    /\ last.op = "close" /\ last.arg = "running"
    /\ phase = "closed"
    /\ cache_size > 0
    /\ Len(meta) > 0
    /\ index_size = 2

\* C16: while the lock of _persist() is on, no call of set(), get() or getn()
\* reads the cache, the index, the rindex or the catalog: getn() evaluates no
\* cache size and no index size before the lock is off.
C16_Exclusion == [][_persist_lock => ~GetnLocked]_vars

\* the last call was a checkpoint: no set() came after it
Checkpointed == last.op \in {"persist", "close", "kill"}

\* C17 as stated: a checkpoint that follows a checkpoint with no set() in
\* between leaves index.json, rindex.json, meta.json and the segment files as
\* they are.
C17_SameFiles == [][(Checkpointed /\ _persist) => UNCHANGED disk]_vars

\* C17: a checkpoint that follows a checkpoint with no set() in between leaves
\* index.json and rindex.json as they are, and meta.json and the segment files
\* too unless it rotates the cache (the time threshold passed in between and
\* the cache is not empty).
C17_SameFilesUnlessRotated ==
    [][(Checkpointed /\ _persist) =>
          /\ UNCHANGED <<index_json, rindex_json>>
          /\ ~archive => UNCHANGED disk]_vars

\* a second close() that rewrote the files of a cache that is not empty
C17_Witness ==
    /\ last = Call("close", "closed", "flushed")
    /\ cache_size > 0
    /\ index_size = 2

\* C18: of two keys the one with the smaller seq has a creation timestamp
\* that is not later, in every state, the states after a reopen included.
C18_CreatedMonotone ==
    \A k1 \in DOMAIN index, k2 \in DOMAIN index :
        index[k1].i < index[k2].i => index[k1].c <= index[k2].c

\* a reopened instance with two keys inserted at different times
C18_Witness ==
    /\ last.op = "open" /\ phase = "running"
    /\ \E k1 \in DOMAIN index, k2 \in DOMAIN index :
          index[k1].i < index[k2].i /\ index[k1].c < index[k2].c

\* C19: getn() without a range returns the memory cache as it is, newest
\* first, cache_size() values, and does not enter the branch that reads the
\* sealed segments (its end index stays within the cache).
C19_DefaultIsCache ==
    phase = "running" =>
        /\ getn_default = [throws |-> FALSE, out |-> cache]
        /\ Len(getn_default.out) = cache_size
        /\ EndAfterReset(0, cache_size, index_size) <= Len(cache)

\* getn() without a range on a cache that is not empty, with a sealed segment
\* on disk
C19_Witness ==
    /\ last = Call("getn", "no range", "ok")
    /\ cache_size > 0
    /\ Len(meta) > 0
    /\ index_size > cache_size

\* C20: set() with the empty string as key returns false and changes neither
\* the cache nor the index nor the rindex.
C20_EmptyKeyRejected ==
    [][(last'.op = "set" /\ \E value \in StoredValues : set("", value)) =>
          (last'.ret = "false" /\ UNCHANGED <<cache, index, rindex>>)]_vars

\* a step of _persist() (from the interval, close() or a signal) that seals
\* the active segment
Checkpoint == last'.op \in {"persist", "close", "kill"} /\ _persist
Seals == Len(meta') = Len(meta) + 1

\* C21: a checkpoint seals the active segment exactly when the cache is not
\* empty and its serialized size has reached the size threshold or the time
\* since the last rotation has reached persist_after_seconds; no catalog entry
\* has size 0; a segment is sealed only by a checkpoint.
C21_SealIff ==
    /\ [][Checkpoint =>
             (Seals <=> (cache_size > 0 /\
                            (space_exceeded \/ now - rotated_at >= persist_after_seconds)))]_vars
    /\ [](\A n \in 1..Len(meta) : meta[n].size > 0)
    /\ [][meta' # meta => (last'.op = "open" \/ Checkpoint)]_vars

\* position of a key counted from the newest: index_size() - (i + 1)
PositionFromNewest(key) == index_size - (index[key].i + 1)

\* the key's value was sealed: its segment is not the active one
IsSealed(key) == index[key].f # cache_file_name

\* the sealed segment index[key].f names exists, is in the catalog and holds
\* the text of value
InSealedSegment(key, value) ==
    LET name == ArchivedName(index[key].f) IN
    /\ name \in DOMAIN files
    /\ \E n \in 1..Len(meta) : meta[n].name = name
    /\ \E q \in 1..Len(files[name]) : files[name][q] = JSON_stringify(value)

\* C22: for every key the position index_size() - (i + 1) is below
\* cache_size() exactly when the key was not sealed; then the cache holds at
\* that position the value last set for the key, else the value is in the
\* sealed segment index[key].f names.
C22_CachePosition ==
    \A key \in DOMAIN index :
        LET p == PositionFromNewest(key) IN
        /\ p < cache_size <=> ~IsSealed(key)
        /\ p < cache_size => cache[p + 1] = Stored(key)
        /\ p >= cache_size => InSealedSegment(key, Stored(key))

\* the same up to what JSON keeps of a value
C22_CachePositionAsJSON ==
    \A key \in DOMAIN index :
        LET p == PositionFromNewest(key) IN
        /\ p < cache_size <=> ~IsSealed(key)
        /\ p < cache_size => JSON_stringify(cache[p + 1]) = JSON_stringify(Stored(key))
        /\ p >= cache_size => InSealedSegment(key, Stored(key))

\* the size the catalog records for the segment `file`, 0 when it has no entry
RECURSIVE CatalogSize(_, _)
CatalogSize(arch, file) ==
    IF arch = <<>> THEN 0
    ELSE IF Head(arch).name[2] = file THEN Head(arch).size
    ELSE CatalogSize(Tail(arch), file)

\* the sealed key's seq falls into its segment and the position computed for
\* it lies inside the file
SealedPositionInside(key) ==
    LET file == index[key].f
        name == ArchivedName(file)
        from_oldest == index[key].i - ArchiveOffset(meta, file)
    IN /\ name \in DOMAIN files
       /\ 0 <= from_oldest /\ from_oldest < CatalogSize(meta, file)
       /\ LET pos == _get_archived_index(index[key].i, file, Len(files[name]))
          IN 0 <= pos /\ pos < Len(files[name])

\* the element of the key's segment at the position computed for it
SealedElement(key) ==
    LET name == ArchivedName(index[key].f)
    IN files[name][_get_archived_index(index[key].i, index[key].f, Len(files[name])) + 1]

\* C23: for every sealed key, with offset the sum of the catalog sizes of the
\* segments sealed before its own: 0 <= i - offset < size of its segment, the
\* position length - 1 - (i - offset) lies inside the segment and the segment
\* holds at that position the value last set for the key.
C23_SealedPosition ==
    \A key \in DOMAIN index :
        IsSealed(key) =>
            /\ SealedPositionInside(key)
            /\ JSON_parse(SealedElement(key)) = Stored(key)

\* the same up to what JSON keeps of a value
C23_SealedPositionAsJSON ==
    \A key \in DOMAIN index :
        IsSealed(key) =>
            /\ SealedPositionInside(key)
            /\ SealedElement(key) = JSON_stringify(Stored(key))

\* the values last set for the keys at the positions s .. e - 1 counted from
\* the newest
ValuesOfRange(s, e) == [j \in 1..(e - s) |-> Stored(rindex[index_size - 1 - (s + j - 1)])]

\* a range inside the index that reaches into the sealed segments
ReachesSealed(s, e) == 0 <= s /\ s <= e /\ e <= index_size /\ e > cache_size

\* C24: for 0 <= s <= e <= index_size() with e > cache_size(), getn([s, e])
\* returns e - s values, the j-th being the value last set for the key with
\* seq index_size() - 1 - (s + j).
C24_RangeIntoSealed ==
    phase = "running" =>
        \A s \in Bounds, e \in Bounds :
            ReachesSealed(s, e) => getn(s, e) = [throws |-> FALSE, out |-> ValuesOfRange(s, e)]

\* the same for ranges whose oldest key is not the empty string, up to what
\* JSON keeps of a value
C24_RangeIntoSealedAsJSON ==
    phase = "running" =>
        \A s \in Bounds, e \in Bounds :
            (ReachesSealed(s, e) /\ rindex[index_size - e] # "") =>
                /\ ~getn(s, e).throws
                /\ StringifyArray(getn(s, e).out) = StringifyArray(ValuesOfRange(s, e))

\* the sealed segments on disk from the newest down to the one named ts
SealedDownTo(ts) == SortNewestFirst({f \in DOMAIN files : HasPrefix(f) /\ f[2] >= ts})

\* C25: getn([s, e]) with e <= cache_size() reads no file; with a larger e it
\* reads the sealed segments newest first down to the one that owns the key
\* with seq index_size() - e, each once, and neither an older segment nor the
\* active cache file.
C25_SegmentsRead ==
    phase = "running" =>
        \A s \in Bounds, e \in Bounds :
            (0 <= s /\ s <= e /\ e <= index_size) =>
                FilesRead(s, e) =
                    IF e <= cache_size THEN <<>>
                    ELSE SealedDownTo(index[rindex[index_size - e]].f)

\* the same for ranges whose oldest key is not the empty string
C25_SegmentsReadNamedKeys ==
    phase = "running" =>
        \A s \in Bounds, e \in Bounds :
            (0 <= s /\ s <= e /\ e <= index_size) =>
                IF e <= cache_size THEN FilesRead(s, e) = <<>>
                ELSE rindex[index_size - e] # "" =>
                        FilesRead(s, e) = SealedDownTo(index[rindex[index_size - e]].f)

\* the number of elements of the array that are smaller than ts: the
\* insertion point of ts, and the position of its first match when it occurs
SmallerThan(array, ts) == Cardinality({p \in 1..Len(array) : array[p] < ts})

Ascending(array) == \A p \in 1..Len(array), q \in 1..Len(array) : p < q => array[p] <= array[q]

\* C26: for the ascending array of the creation timestamps and every searched
\* timestamp, the end returned by _binary_search plus one is the insertion
\* point of the timestamp, the position of its first match when it occurs.
C26_InsertionPoint ==
    Ascending(insertion_times) =>
        \A ts \in Times :
            _binary_search(insertion_times, ts)[2] + 1 = SmallerThan(insertion_times, ts)

\* the same for the timestamps that do not occur in the array
C26_InsertionPointOfAbsent ==
    Ascending(insertion_times) =>
        \A ts \in Times :
            (\A p \in 1..Len(insertion_times) : insertion_times[p] # ts) =>
                _binary_search(insertion_times, ts)[2] + 1 = SmallerThan(insertion_times, ts)

\* t0 is before and t1 after every creation timestamp of the index
Brackets(t0, t1) == \A key \in DOMAIN index : t0 < index[key].c /\ index[key].c < t1

\* C27: getn(null, [t0, t1]) with t0 smaller and t1 larger than every creation
\* timestamp returns index_size() values.
C27_WholeTimeRange ==
    phase = "running" =>
        \A t0 \in Times, t1 \in Times :
            Brackets(t0, t1) =>
                (~getn_time(t0, t1).throws /\ Len(getn_time(t0, t1).out) = index_size)

\* the same for a database whose oldest key is not the empty string
C27_WholeTimeRangeNamedKeys ==
    (phase = "running" /\ (0 \in DOMAIN rindex => rindex[0] # "")) =>
        \A t0 \in Times, t1 \in Times :
            Brackets(t0, t1) =>
                (~getn_time(t0, t1).throws /\ Len(getn_time(t0, t1).out) = index_size)

\* the keys are exactly 0 .. n - 1
Contiguous(ri) == DOMAIN ri = 0..(Cardinality(DOMAIN ri) - 1)

C29_CrashAfterRename ==
    [][(last = Call("crash", "after rename", "") /\ Open) => phase' = "failed"]_vars

\* a constructor that failed on a sealed segment the catalog does not list
C29_Witness ==
    /\ last = Call("open", "crashed", "failed")
    /\ \E f \in DOMAIN files : HasPrefix(f) /\ f \notin ArchiveNames(meta)
    /\ index_size = 2

\* the invariants of index, rindex and catalog in the loaded state
LoadedInvariants ==
    /\ index_size = rindex_size
    /\ Contiguous(rindex)
    /\ \A key \in DOMAIN index : rindex[index[key].i] = key
    /\ cache_size = index_size - SumSizes(meta)
    /\ \A n \in 1..Len(meta) :
          meta[n].name \in DOMAIN files /\ Len(files[meta[n].name]) = meta[n].size
    /\ \A key \in DOMAIN index :
          /\ PositionFromNewest(key) < cache_size <=> ~IsSealed(key)
          /\ IsSealed(key) => SealedPositionInside(key)

\* the constructor ran on the directory a killed process left
OpenedAfterCrash == last.op = "open" /\ last.arg = "crashed"

\* C30: after a kill at any point of a checkpoint or a rotation the next
\* constructor fails its consistency checks, or it loads a state that
\* satisfies the invariants of index, rindex and catalog and in which get(key)
\* of every indexed key returns a value that was set for the key.
C30_CrashSafe ==
    OpenedAfterCrash =>
        \/ phase = "failed"
        \/ /\ LoadedInvariants
           /\ \A key \in DOMAIN index : get(key) \in ever_set[key]

\* the same up to what JSON keeps of a value
C30_CrashSafeAsJSON ==
    OpenedAfterCrash =>
        \/ phase = "failed"
        \/ /\ LoadedInvariants
           /\ \A key \in DOMAIN index :
                 \E value \in ever_set[key] : JSON_stringify(get(key)) = JSON_stringify(value)

\* the last call was a checkpoint that failed with an I/O error
FailedCheckpoint == last.ret = "threw"

\* C31: the lock is released on every exit of a checkpoint, one that fails
\* with an I/O error included, and no later set, get or getn waits forever.
C31_LockReleased ==
    /\ FailedCheckpoint => ~_persist_lock
    /\ phase # "hung"

\* the rest of C31: a failed checkpoint leaves the memory as it is, and the
\* next checkpoint runs with the current state and releases the lock
C31_MemoryKeptAndRetried ==
    /\ [][close_throws => UNCHANGED mem]_vars
    /\ [][(_persist_lock /\ TimerPersist) => (~_persist_lock' /\ DiskReflectsMemory')]_vars

ReplacesSlot(name, key, value) ==
    /\ set(key, value)
    /\ key \in DOMAIN index
    /\ ArchivedName(index[key].f) = name
    /\ LET pos == _get_archived_index(index[key].i, index[key].f, Len(files[name])) + 1 IN
       /\ pos \in 1..Len(files[name])
       /\ \A q \in 1..Len(files[name]) : q # pos => files'[name][q] = files[name][q]
    /\ \A other \in DOMAIN files : other # name => files'[other] = files[other]
    /\ UNCHANGED meta

\* C33: a sealed segment keeps its catalog entry and holds as many values as
\* the entry says; its content changes only in a set on an existing key the
\* segment owns, which replaces the slot of that key and leaves every other
\* slot, every other segment and the catalog unchanged.
C33_SealedImmutable ==
    [][\A n \in 1..Len(meta) :
          LET name == meta[n].name IN
          /\ n <= Len(meta')
          /\ meta'[n] = meta[n]
          /\ name \in DOMAIN files'
          /\ Len(files'[name]) = meta[n].size
          /\ files'[name] # files[name] =>
                \E input \in SetInputs : ReplacesSlot(name, input[1], input[2])]_vars

\* the last call was a set on a sealed key (the cache is empty and no
\* inherited name was ever set) whose slot holds the text of the value
C33_Witness ==
    /\ last = Call("set", "", "true")
    /\ cache_size = 0
    /\ "constructor" \notin DOMAIN expected
    /\ \E key \in DOMAIN index :
          /\ IsSealed(key)
          /\ SealedPositionInside(key)
          /\ CatalogSize(meta, index[key].f) = 2
          /\ ever_set[key] = {"x", "Infinity"}
          /\ SealedElement(key) = JSON_stringify(expected[key])

\* index.json, rindex.json and meta.json hold the index, the rindex and the
\* catalog of the memory, and the active cache file exists
JsonFilesExact ==
    /\ ActiveName(cache_file_name) \in DOMAIN files
    /\ index_json = <<index>>
    /\ rindex_json = <<rindex>>
    /\ meta_json = <<meta>>

\* C34: right after a checkpoint that does not rotate the active cache file
\* holds the values of the cache in the order of the cache, and index.json,
\* rindex.json and meta.json hold the index, the rindex and the catalog; also
\* when the cache is empty.
C34_FlushExact ==
    [][(Checkpoint /\ ~archive) =>
          /\ JsonFilesExact'
          /\ ParseArray(files'[ActiveName(cache_file_name')]) = cache']_vars

\* the same with the file holding the JSON text of every value of the cache
C34_FlushExactAsJSON ==
    [][(Checkpoint /\ ~archive) =>
          /\ JsonFilesExact'
          /\ files'[ActiveName(cache_file_name')] = StringifyArray(cache')]_vars

\* a checkpoint that does not rotate ran on an empty cache
C34_EmptyCacheFlushed ==
    /\ last = Call("persist", "running", "flushed")
    /\ cache_size = 0
    /\ Len(meta) > 0
    /\ files[ActiveName(cache_file_name)] = <<>>

\* C35: a checkpoint that does not rotate (the catalog gains no entry) leaves
\* the cache, the index, the rindex, the catalog and the name of the active
\* cache file unchanged.
C35_FlushKeepsMemory ==
    [][(Checkpoint /\ ~Seals) => UNCHANGED <<cache, index, rindex, meta, cache_file_name>>]_vars

\* the interval ran a checkpoint without a rotation on a cache that is not
\* empty, with a segment sealed earlier
C35_Witness ==
    /\ last = Call("persist", "running", "flushed")
    /\ cache_size > 0
    /\ Len(meta) > 0
    /\ index_size = 2

\* a set(key, value) that returns true writes once, to the cache or to a sealed
\* file, and leaves the active cache file alone; for a new key it puts the
\* value at position 0 of the cache, adds one index and one rindex entry and
\* reads and writes no file
SetWritesOnce(key, value) ==
    (set(key, value) /\ last'.ret = "true") =>
        /\ memory_cache_writes(key) + file_cache_writes(key) = 1
        /\ files'[ActiveName(cache_file_name)] = files[ActiveName(cache_file_name)]
        /\ key \notin DOMAIN index =>
              /\ cache' = <<value>> \o cache
              /\ DOMAIN index' = DOMAIN index \cup {key}
              /\ DOMAIN rindex' = DOMAIN rindex \cup {index_size}
              /\ rindex'[index_size] = key
              /\ file_cache_reads(key) = 0
              /\ file_cache_writes(key) = 0
              /\ UNCHANGED disk

\* C36: set of a new key only changes memory (value at cache position 0, one
\* index and one rindex entry) and reads and writes no file, so the active
\* cache file holds what the last checkpoint or its creation wrote until the
\* next checkpoint; every set that returns true performs exactly one write,
\* to memory or to a sealed file.
C36_SetWritesOnce ==
    [][last'.op = "set" => \A input \in SetInputs : SetWritesOnce(input[1], input[2])]_vars

\* the same for the keys that are no inherited property names
C36_SetWritesOnceOwnKeys ==
    [][last'.op = "set" =>
          \A input \in SetInputs :
              input[1] \notin ObjectPrototype => SetWritesOnce(input[1], input[2])]_vars

\* the number of items in the first n arrays
RECURSIVE Cumulative(_, _)
Cumulative(arrays, n) == IF n = 0 THEN 0 ELSE Len(arrays[n]) + Cumulative(arrays, n - 1)

\* the arrays are the cache and then the sealed segments in the order of the
\* catalog, the newest first, up to the first one with which the number of
\* items visited is >= limit
VisitsUpToLimit(arrays, limit) ==
    /\ Len(arrays) >= 1
    /\ Len(arrays) <= 1 + Len(meta)
    /\ arrays[1] = cache
    /\ \A n \in 2..Len(arrays) : arrays[n] = ParseArray(files[meta[Len(meta) + 2 - n].name])
    /\ \A n \in 1..(Len(arrays) - 1) : Cumulative(arrays, n) < limit
    /\ Len(arrays) < 1 + Len(meta) => Cumulative(arrays, Len(arrays)) >= limit

\* C37: walk calls the callbacks with the cache first and then with each
\* sealed segment, the newest first, and with no further segment once the
\* number of items visited is >= limit; it changes neither cache, index,
\* rindex nor catalog.
C37_Walk ==
    /\ [](phase = "running" => \A limit \in Limits : VisitsUpToLimit(walk(limit), limit))
    /\ [][(\E limit \in Limits : Walk(limit)) => UNCHANGED <<mem, disk>>]_vars

\* a walk on a cache and two sealed segments that stops after the newer one
C37_Witness ==
    /\ last = Call("walk", "files", "true")
    /\ cache_size > 0
    /\ Len(meta) = 2
    /\ \E limit \in Limits :
          /\ Len(walk(limit)) = 2
          /\ walk(limit)[2] = ParseArray(files[meta[2].name])

\* the code strings whose evaluation does not throw
Predicates == {callback_str \in CallbackStrings : ~callback_str.throws}

\* C38: filter follows the traversal of walk with the same limit: it
\* evaluates the predicate on exactly the values walk visits, in the same
\* order, returns the selected ones, and the value it returns has the same
\* shape whether the traversal stopped in the cache or in a sealed segment.
C38_FilterAsWalk ==
    phase = "running" =>
        \A callback_str \in Predicates, limit \in Limits :
            LET visited == Flatten(walk(limit))
                returned == filter(callback_str, limit)
            IN /\ returned.evaluated = visited
               /\ returned.results =
                      SelectSeq(visited, LAMBDA data : data \in callback_str.selects)
               /\ \A other \in Limits : filter(callback_str, other).shape = returned.shape

\* what holds of C38: filter reads the arrays walk visits with the same limit,
\* evaluates the predicate on the values among them that are truthy, in the
\* same order, and its results are the selected ones of these
C38_FilterTruthyAsWalk ==
    phase = "running" =>
        \A callback_str \in Predicates, limit \in Limits :
            LET visited == Flatten(walk(limit))
                returned == filter(callback_str, limit)
            IN /\ returned.evaluated = SelectSeq(visited, Truthy)
               /\ returned.results =
                      SelectSeq(visited,
                                LAMBDA data : Truthy(data) /\ data \in callback_str.selects)
               /\ returned.shape = IF Len(walk(limit)) = 1 /\ Len(cache) >= limit
                                   THEN "array" ELSE "object"

\* the shapes alone: the traversal that stops in the cache returns another
\* shape than the one that goes on to the files
C38_SameShape ==
    phase = "running" =>
        \A callback_str \in Predicates, limit \in Limits, other \in Limits :
            filter(callback_str, limit).shape = filter(callback_str, other).shape

\* the evaluations alone: the predicate is evaluated on every value walk visits
C38_EvaluatesAll ==
    phase = "running" =>
        \A callback_str \in Predicates, limit \in Limits :
            filter(callback_str, limit).evaluated = Flatten(walk(limit))

\* C39: rindex is the inverse of the seq field of index: rindex[index[k].i] = k
\* for every key k and index[rindex[s]].i = s for every seq s of rindex, in
\* every state, whatever set, checkpoint, rotation or restart led to it.
C39_Inverse ==
    /\ \A key \in DOMAIN index :
          index[key].i \in DOMAIN rindex /\ rindex[index[key].i] = key
    /\ \A seq \in DOMAIN rindex :
          rindex[seq] \in DOMAIN index /\ index[rindex[seq]].i = seq

\* a restarted instance with two keys, one of them in a sealed segment
C39_Witness ==
    /\ last.op = "open"
    /\ phase = "running"
    /\ index_size = 2
    /\ \E key \in DOMAIN index : IsSealed(key)
    /\ \E key \in DOMAIN index : ~IsSealed(key)

====
